---------------------------- MODULE Spec2Model ----------------------------
(***************************************************************************)
(* Model of geospatial_api_integration_challenge.py: a one-shot script     *)
(* that fetches wildfire incidents, runs three reporters over the table,   *)
(* fetches again and matches the incidents against a detection dataset.    *)
(*                                                                         *)
(* Units.  Epoch values are counted in minutes (the service sends          *)
(* milliseconds; 1717200000000 ms = 28620000 min), sizes in tenths of an   *)
(* acre (999.9 acres = 9999), durations in minutes (duration_hours * 60).  *)
(***************************************************************************)
EXTENDS Integers, Sequences, FiniteSets, TLC

VARIABLES pc, exitCode, stdout, traceback, queries, rawFile, rawWrites,
          filteredFile, filteredWrites, df_fires, shown, consumed,
          wfs_data, matched

vars == <<pc, exitCode, stdout, traceback, queries, rawFile, rawWrites,
          filteredFile, filteredWrites, df_fires, shown, consumed,
          wfs_data, matched>>

---------------------------------------------------------------------------
(* Bounds of the model *)

MaxFeatures == 2

MaxDetections == 2

\* largest size, in tenths of an acre, the classification is tried on
MaxSize == 10100

---------------------------------------------------------------------------
(* Values *)

\* Python None / JSON null
PyNone == -1

\* float NaN, what a None becomes in a numeric pandas column
NaN == -2

\* pandas NaT, what a None becomes under pd.to_datetime(errors="coerce")
NaT == -4

\* a process that has not exited
Running == -1

AcreScale == 10

HourScale == 60

\* FireDiscoveryDateTime of a feature: null or 2024-06-01T00:00Z
DiscoveryTimes == {PyNone, 28620000}

\* FireOutDateTime of a feature: null, 90 minutes before, 150 minutes after
OutTimes == {PyNone, 28619910, 28620150}

\* IncidentSize of a feature: null or 999.9 acres
Sizes == {PyNone, 9999}

\* geometry of a feature: null (the empty tuple) or the coordinates
\* <<longitude, latitude>> of a point
Geometries == {<<>>, <<-105, 39>>}

\* oldest_detection of a detection: before or after the discovery
DetectionTimes == {28619910, 28620150}

\* geometry of a detection, as the set of points it covers; an incident
\* without geometry is the one that meets no detection
DetectionGeometries == {{<<-105, 39>>}}

\* what sets a feature apart from an incident that has a location and a
\* size and was put out after its discovery
Departures(f) ==
    {k \in {"discovery", "out", "size", "geometry"} :
        \/ k = "discovery" /\ f.FireDiscoveryDateTime = PyNone
        \/ k = "out" /\ (f.FireOutDateTime = PyNone
                          \/ f.FireOutDateTime < f.FireDiscoveryDateTime)
        \/ k = "size" /\ f.IncidentSize = PyNone
        \/ k = "geometry" /\ f.geometry = <<>>}

\* A feature's properties and geometry; every feature carries the keys the
\* extraction reads, and departs in at most one of them
Features ==
    {f \in [FireDiscoveryDateTime : DiscoveryTimes, FireOutDateTime : OutTimes,
            IncidentSize : Sizes, geometry : Geometries] :
        Cardinality(Departures(f)) <= 1}

FeatureLists == UNION {[1..n -> Features] : n \in 0..MaxFeatures}

\* Response bodies: text that is not JSON, a JSON value that is not an
\* object, an object without "features", with "features": null, with a
\* "features" that is a non-empty string, and with a list of features.
Body(valid, kind, tag, features) ==
    [valid |-> valid, kind |-> kind, tag |-> tag, features |-> features]

Bodies ==
    {Body(FALSE, "text", "absent", <<>>), Body(TRUE, "array", "absent", <<>>),
     Body(TRUE, "object", "absent", <<>>), Body(TRUE, "object", "null", <<>>),
     Body(TRUE, "object", "string", <<>>)}
    \cup {Body(TRUE, "object", "list", fs) : fs \in FeatureLists}

Responses ==
    {[status_code |-> 500, body |-> Body(FALSE, "text", "absent", <<>>)]}
    \cup {[status_code |-> 200, body |-> b] : b \in Bodies}

Detections == [geometry : DetectionGeometries, oldest_detection : DetectionTimes]

\* The detection file: missing, or a list of detections
WfsFiles ==
    {[exists |-> FALSE, features |-> <<>>]}
    \cup {[exists |-> TRUE, features |-> ds] :
             ds \in UNION {[1..n -> Detections] : n \in 0..MaxDetections}}

NoFile == Body(FALSE, "none", "absent", <<>>)

NoFrame == [columns |-> <<>>, tz |-> "none", rows |-> <<>>]

NoFigure == [kind |-> "none", counts |-> <<>>, data |-> <<>>]

NoMatch ==
    [intersected_fires |-> {}, wfs_earlier_count |-> 0,
     total_intersected_fires |-> 0,
     wfs_earlier_percentage |-> [num |-> 0, den |-> 1]]

Line(msg, val) == [msg |-> msg, val |-> val]

---------------------------------------------------------------------------
(* Helpers *)

RECURSIVE SeqMap(_, _)
SeqMap(Op(_), s) ==
    IF s = <<>> THEN <<>> ELSE <<Op(Head(s))>> \o SeqMap(Op, Tail(s))

Range(s) == {s[i] : i \in DOMAIN s}

Count(s, v) == Cardinality({i \in DOMAIN s : s[i] = v})

RECURSIVE SumOver(_, _)
SumOver(f, S) ==
    IF S = {} THEN 0
    ELSE LET x == CHOOSE y \in S : TRUE IN f[x] + SumOver(f, S \ {x})

\* sys.exit(code) after printing msgs; tb names an uncaught exception
Terminate(code, msgs, tb) ==
    /\ pc' = "exit"
    /\ exitCode' = code
    /\ stdout' = stdout \o msgs
    /\ traceback' = tb

Continue(next, msgs) ==
    /\ pc' = next
    /\ stdout' = stdout \o msgs
    /\ UNCHANGED <<exitCode, traceback>>

---------------------------------------------------------------------------
(* fetch_fire_incidents *)

\* `features is None` instead of `not features`: an empty list passes
FalsyMutant(body) == body.tag \in {"absent", "null"}

\* `not features`
Falsy(body) == body.tag \in {"absent", "null"} \/ (body.tag = "list" /\ body.features = <<>>)

\* the dict built for one feature
fire_info(feature) ==
    [FireDiscoveryDateTime |-> feature.FireDiscoveryDateTime,
     FireOutDateTime |-> feature.FireOutDateTime,
     IncidentSize |-> feature.IncidentSize,
     Latitude |-> IF feature.geometry # <<>> THEN feature.geometry[2] ELSE PyNone,
     Longitude |-> IF feature.geometry # <<>> THEN feature.geometry[1] ELSE PyNone]

\* pd.to_datetime(column, errors="coerce", unit="ms")
to_datetime(v) == IF v = PyNone THEN NaT ELSE v

\* dtype inference of the IncidentSize column: None among numbers is NaN,
\* a column of only None stays an object column of None
SizeColumn(filtered_data, v) ==
    IF v = PyNone /\ (\E i \in DOMAIN filtered_data : filtered_data[i].IncidentSize # PyNone)
    THEN NaN ELSE v

DataFrame(filtered_data) ==
    LET row(d) == [FireDiscoveryDateTime |-> to_datetime(d.FireDiscoveryDateTime),
                   FireOutDateTime |-> to_datetime(d.FireOutDateTime),
                   IncidentSize |-> SizeColumn(filtered_data, d.IncidentSize),
                   Latitude |-> d.Latitude,
                   Longitude |-> d.Longitude]
    IN [columns |-> <<"IncidentName", "FireDiscoveryDateTime", "FireOutDateTime",
                      "IncidentSize", "POOState", "Latitude", "Longitude">>,
        tz |-> "naive",
        rows |-> SeqMap(row, filtered_data)]

AfterFetch == IF pc = "fetch_1" THEN "hour" ELSE "match"

fetch_fire_incidents ==
    /\ pc \in {"fetch_1", "fetch_2"}
    /\ \E response \in Responses :
         LET fire_data == response.body IN
         /\ queries' = queries + 1
         /\ IF response.status_code # 200
            THEN /\ Terminate(1, <<Line("Error fetching data:", 0)>>, "")
                 /\ UNCHANGED <<rawFile, rawWrites, filteredFile, filteredWrites, df_fires>>
            ELSE IF ~fire_data.valid
            THEN /\ Terminate(1, <<Line("Error decoding JSON response.", 0)>>, "")
                 /\ UNCHANGED <<rawFile, rawWrites, filteredFile, filteredWrites, df_fires>>
            ELSE /\ rawFile' = fire_data
                 /\ rawWrites' = rawWrites + 1
                 /\ IF fire_data.kind # "object"
                    THEN /\ Terminate(1, <<Line("Raw fire data saved to", 0)>>, "AttributeError")
                         /\ UNCHANGED <<filteredFile, filteredWrites, df_fires>>
                    ELSE IF Falsy(fire_data)
                    THEN /\ Terminate(1, <<Line("Raw fire data saved to", 0),
                                           Line("No fire data found.", 0)>>, "")
                         /\ UNCHANGED <<filteredFile, filteredWrites, df_fires>>
                    ELSE IF fire_data.tag # "list"
                    THEN /\ Terminate(1, <<Line("Raw fire data saved to", 0)>>, "AttributeError")
                         /\ UNCHANGED <<filteredFile, filteredWrites, df_fires>>
                    ELSE LET filtered_data == SeqMap(fire_info, fire_data.features) IN
                         /\ filteredFile' = filtered_data
                         /\ filteredWrites' = filteredWrites + 1
                         /\ df_fires' = DataFrame(filtered_data)
                         /\ Continue(AfterFetch, <<Line("Raw fire data saved to", 0),
                                                   Line("Filtered fire data saved to", 0)>>)
    /\ shown' = NoFigure
    /\ UNCHANGED <<consumed, wfs_data, matched>>

---------------------------------------------------------------------------
(* get_hour_distribution *)

HourLabels ==
    <<"00:00", "01:00", "02:00", "03:00", "04:00", "05:00", "06:00", "07:00",
      "08:00", "09:00", "10:00", "11:00", "12:00", "13:00", "14:00", "15:00",
      "16:00", "17:00", "18:00", "19:00", "20:00", "21:00", "22:00", "23:00">>

\* strftime of a missing timestamp
NoLabel == "NaN"

\* 2024-03-10T09:00Z and 2024-11-03T08:00Z, daylight saving time in Denver
DstStart == 28502460

DstEnd == 28843680

\* UTC offset of America/Denver, in minutes
UtcOffset(t) == IF DstStart <= t /\ t < DstEnd THEN -360 ELSE -420

\* tz_convert("America/Denver") followed by strftime("%H:00")
strftime(t) ==
    IF t = NaT THEN NoLabel
    ELSE HourLabels[(((t + UtcOffset(t)) \div HourScale) % 24) + 1]

\* Series.value_counts(): the values that occur, missing ones dropped
value_counts(s) == [v \in Range(s) \ {NoLabel} |-> Count(s, v)]

\* the reindex left out: hours without a fire are missing
reindexMutant(counts, labels, fill) == counts

\* Series.reindex(labels, fill_value=fill)
reindex(counts, labels, fill) ==
    [l \in Range(labels) |-> IF l \in DOMAIN counts THEN counts[l] ELSE fill]

\* the caller's table after lines 103-104
HourFrame(df) ==
    LET row(r) == r @@ [Hour |-> strftime(r.FireDiscoveryDateTime)]
    IN [columns |-> Append(df.columns, "Hour"),
        tz |-> "America/Denver",
        rows |-> SeqMap(row, df.rows)]

HourFigure(df) ==
    LET Hour(r) == r.Hour
        fire_counts == reindex(value_counts(SeqMap(Hour, df.rows)), HourLabels, 0)
    IN [kind |-> "hour", counts |-> fire_counts, data |-> <<>>]

get_hour_distribution ==
    /\ pc = "hour"
    /\ df_fires' = HourFrame(df_fires)
    /\ shown' = HourFigure(df_fires')
    /\ consumed' = Append(consumed, [stage |-> "hour", fetch |-> queries])
    /\ Continue("area", <<>>)
    /\ UNCHANGED <<queries, rawFile, rawWrites, filteredFile, filteredWrites,
                   wfs_data, matched>>

---------------------------------------------------------------------------
(* get_fire_affected_area_distribution *)

\* a < b and a <= b on floats: False when either side is NaN
Lt(a, b) == a # NaN /\ b # NaN /\ a < b

Le(a, b) == a # NaN /\ b # NaN /\ a <= b

\* the Medium range closed at 1000 acres
CategoryMutant(fire_size) ==
    IF Lt(fire_size, 100 * AcreScale) THEN "Small (<100 acres)"
    ELSE IF Le(100 * AcreScale, fire_size) /\ Le(fire_size, 1000 * AcreScale)
         THEN "Medium (100-1000 acres)"
    ELSE "Large (>1000 acres)"

Category(fire_size) ==
    IF Lt(fire_size, 100 * AcreScale) THEN "Small (<100 acres)"
    ELSE IF Le(100 * AcreScale, fire_size) /\ Lt(fire_size, 1000 * AcreScale)
         THEN "Medium (100-1000 acres)"
    ELSE "Large (>1000 acres)"

AreaFigure(df) ==
    LET entry(r) == [fire_size |-> r.IncidentSize, category |-> Category(r.IncidentSize)]
        fire_data == SeqMap(entry, df.rows)
        category(e) == e.category
    IN [kind |-> "area", counts |-> value_counts(SeqMap(category, fire_data)),
        data |-> fire_data]

get_fire_affected_area_distribution ==
    /\ pc = "area"
    /\ consumed' = Append(consumed, [stage |-> "area", fetch |-> queries])
    /\ IF \E i \in DOMAIN df_fires.rows : df_fires.rows[i].IncidentSize = PyNone
       THEN \* None < 100 raises TypeError
            /\ Terminate(1, <<>>, "TypeError")
            /\ UNCHANGED shown
       ELSE /\ shown' = AreaFigure(df_fires)
            /\ Continue("corr", <<>>)
    /\ UNCHANGED <<queries, rawFile, rawWrites, filteredFile, filteredWrites,
                   df_fires, wfs_data, matched>>

---------------------------------------------------------------------------
(* get_correlation *)

notnull(v) == v \notin {PyNone, NaN, NaT}

\* Timestamp.tz_localize("UTC") raises TypeError on a tz-aware timestamp,
\* Timestamp.tz_convert("UTC") on a naive one; neither moves the instant
tz_localize(t, tz) == [ok |-> tz = "naive", t |-> t, tz |-> "UTC"]

tz_convert(t, tz) == [ok |-> tz # "naive", t |-> t, tz |-> "UTC"]

\* lines 176-184
ToUtc(t, tz) == IF tz = "naive" THEN tz_localize(t, tz) ELSE tz_convert(t, tz)

\* the negative durations kept
DurationMutant(start_time, end_time) == end_time - start_time

\* duration_hours of lines 194-196, in minutes
Duration(start_time, end_time) ==
    LET duration_hours == end_time - start_time
    IN IF duration_hours < 0 THEN PyNone ELSE duration_hours

\* one pass of the loop body: "skip" (line 173 false), "error" (except
\* branch) or "keep" with the entry appended to fire_data
CorrRow(row, tz) ==
    LET start_time == ToUtc(row.FireDiscoveryDateTime, tz)
        end_time == ToUtc(row.FireOutDateTime, "naive")
    IN IF ~(notnull(row.FireDiscoveryDateTime) /\ notnull(row.FireOutDateTime)
             /\ notnull(row.IncidentSize))
       THEN [what |-> "skip", entry |-> <<>>]
       ELSE IF ~(start_time.ok /\ end_time.ok)
       THEN [what |-> "error", entry |-> <<>>]
       ELSE [what |-> "keep",
             entry |-> <<[hour |-> strftime(start_time.t),
                          fire_size |-> row.IncidentSize,
                          duration_hours |-> Duration(start_time.t, end_time.t)]>>]

RECURSIVE CorrData(_, _)
CorrData(rows, tz) ==
    IF rows = <<>> THEN <<>>
    ELSE CorrRow(Head(rows), tz).entry \o CorrData(Tail(rows), tz)

RECURSIVE CorrErrors(_, _)
CorrErrors(rows, tz) ==
    IF rows = <<>> THEN <<>>
    ELSE (IF CorrRow(Head(rows), tz).what = "error"
          THEN <<Line("Skipping fire due to error:", 0)>> ELSE <<>>)
         \o CorrErrors(Tail(rows), tz)

get_correlation ==
    /\ pc = "corr"
    /\ consumed' = Append(consumed, [stage |-> "corr", fetch |-> queries])
    /\ LET fire_data == CorrData(df_fires.rows, df_fires.tz)
           skipped == CorrErrors(df_fires.rows, df_fires.tz)
       IN IF fire_data = <<>>
          THEN /\ Terminate(1, skipped \o
                     <<Line("No fire data available for the given time range.", 0)>>, "")
               /\ UNCHANGED shown
          ELSE /\ shown' = [kind |-> "corr", counts |-> <<>>, data |-> fire_data]
               /\ Continue("read_wfs", skipped)
    /\ UNCHANGED <<queries, rawFile, rawWrites, filteredFile, filteredWrites,
                   df_fires, wfs_data, matched>>

---------------------------------------------------------------------------
(* OroraTech / Fire Incidents API Matching *)

\* the second fetch left out: the matcher reuses the reporters' table
AfterReadFileMutant == "match"

\* line 256 follows line 253: the incidents are fetched again
AfterReadFile == "fetch_2"

\* line 253
read_file ==
    /\ pc = "read_wfs"
    /\ \E file \in WfsFiles :
         IF ~file.exists
         THEN /\ Terminate(1, <<>>, "DataSourceError")
              /\ UNCHANGED wfs_data
         ELSE /\ wfs_data' = file.features
              /\ Continue(AfterReadFile, <<>>)
    /\ shown' = NoFigure
    /\ UNCHANGED <<queries, rawFile, rawWrites, filteredFile, filteredWrites,
                   df_fires, consumed, matched>>

\* gpd.points_from_xy(df_fires.Longitude, df_fires.Latitude): a missing
\* coordinate gives a point that lies nowhere (the empty tuple)
points_from_xy(x, y) == IF x = PyNone \/ y = PyNone THEN <<>> ELSE <<x, y>>

\* gpd.sjoin(official_data, wfs_data, how="inner", predicate="intersects"):
\* one row per pair of an incident and a detection whose geometries meet
sjoin(official, wfs) ==
    {p \in (DOMAIN official) \X (DOMAIN wfs) :
        points_from_xy(official[p[1]].Longitude, official[p[1]].Latitude)
            \in wfs[p[2]].geometry}

\* the comparison turned around
EarlierMutant(oldest_detection, discovery) ==
    oldest_detection # NaT /\ discovery # NaT /\ discovery < oldest_detection

\* oldest_detection < FireDiscoveryDateTime, False when either is NaT
Earlier(oldest_detection, discovery) ==
    oldest_detection # NaT /\ discovery # NaT /\ oldest_detection < discovery

EarlierCount(intersected_fires, official, wfs) ==
    Cardinality({p \in intersected_fires :
        Earlier(wfs[p[2]].oldest_detection, official[p[1]].FireDiscoveryDateTime)})

\* line 276, as a fraction
Percentage(wfs_earlier_count, total_intersected_fires) ==
    IF total_intersected_fires > 0
    THEN [num |-> wfs_earlier_count * 100, den |-> total_intersected_fires]
    ELSE [num |-> 0, den |-> 1]

\* f"{x:.2f}": x rounded to hundredths, ties to even
Format2f(x) ==
    LET q == (x.num * 100) \div x.den
        r == (x.num * 100) % x.den
    IN IF 2 * r > x.den THEN q + 1
       ELSE IF 2 * r = x.den THEN q + (q % 2)
       ELSE q

\* lines 259-280
match_fires ==
    /\ pc = "match"
    /\ LET \* a new frame; line 265 assigns into it and not into df_fires
           official_data == [df_fires EXCEPT !.tz = "America/Denver"]
           intersected_fires == sjoin(official_data.rows, wfs_data)
           wfs_earlier_count ==
               EarlierCount(intersected_fires, official_data.rows, wfs_data)
           total_intersected_fires == Cardinality(intersected_fires)
           wfs_earlier_percentage == Percentage(wfs_earlier_count, total_intersected_fires)
       IN /\ matched' = [intersected_fires |-> intersected_fires,
                         wfs_earlier_count |-> wfs_earlier_count,
                         total_intersected_fires |-> total_intersected_fires,
                         wfs_earlier_percentage |-> wfs_earlier_percentage]
          /\ Terminate(0, <<Line("Fires first detected by WFS:", wfs_earlier_count),
                            Line("Percentage of fires first detected by WFS:",
                                 Format2f(wfs_earlier_percentage))>>, "")
    /\ consumed' = Append(consumed, [stage |-> "match", fetch |-> queries])
    /\ UNCHANGED <<queries, rawFile, rawWrites, filteredFile, filteredWrites,
                   df_fires, shown, wfs_data>>

---------------------------------------------------------------------------

Init ==
    /\ pc = "fetch_1"
    /\ exitCode = Running
    /\ stdout = <<>>
    /\ traceback = ""
    /\ queries = 0
    /\ rawFile = NoFile
    /\ rawWrites = 0
    /\ filteredFile = <<>>
    /\ filteredWrites = 0
    /\ df_fires = NoFrame
    /\ shown = NoFigure
    /\ consumed = <<>>
    /\ wfs_data = <<>>
    /\ matched = NoMatch

Next ==
    \/ fetch_fire_incidents
    \/ get_hour_distribution
    \/ get_fire_affected_area_distribution
    \/ get_correlation
    \/ read_file
    \/ match_fires

Spec == Init /\ [][Next]_vars

---------------------------------------------------------------------------
(* The size reporter on its own: the program has fetched one incident of   *)
(* any size up to MaxSize and has shown the hour distribution.             *)

SizeFeature(size) ==
    [FireDiscoveryDateTime |-> 28620000, FireOutDateTime |-> 28620150,
     IncidentSize |-> size, geometry |-> <<-105, 39>>]

InitSize ==
    \E size \in 0..MaxSize :
        LET features == <<SizeFeature(size)>> IN
        /\ pc = "area"
        /\ exitCode = Running
        /\ stdout = <<Line("Raw fire data saved to", 0),
                      Line("Filtered fire data saved to", 0)>>
        /\ traceback = ""
        /\ queries = 1
        /\ rawFile = Body(TRUE, "object", "list", features)
        /\ rawWrites = 1
        /\ filteredFile = SeqMap(fire_info, features)
        /\ filteredWrites = 1
        /\ df_fires = HourFrame(DataFrame(filteredFile))
        /\ shown = HourFigure(df_fires)
        /\ consumed = <<[stage |-> "hour", fetch |-> 1]>>
        /\ wfs_data = <<>>
        /\ matched = NoMatch

NextSize == get_fire_affected_area_distribution

SpecSize == InitSize /\ [][NextSize]_vars

---------------------------------------------------------------------------
(* Properties *)

LastLine == IF stdout = <<>> THEN "" ELSE stdout[Len(stdout)].msg

Printed(msg) == \E i \in DOMAIN stdout : stdout[i].msg = msg

Completed == pc = "exit" /\ exitCode = 0

C2_Category ==
    shown.kind = "area" =>
        \A i \in DOMAIN shown.data :
            LET s == shown.data[i].fire_size
                c == shown.data[i].category
            IN s >= 0 =>
                /\ c \in {"Small (<100 acres)", "Medium (100-1000 acres)",
                          "Large (>1000 acres)"}
                /\ (c = "Small (<100 acres)") <=> (s < 1000)
                /\ (c = "Medium (100-1000 acres)") <=> (1000 <= s /\ s < 10000)
                /\ (c = "Large (>1000 acres)") <=> (s >= 10000)

C2_Witness ==
    /\ shown.kind = "area"
    /\ shown.data[1].fire_size = 10000
    /\ shown.data[1].category = "Large (>1000 acres)"

\* C3: the hour distribution has exactly the 24 labels 00:00..23:00 and its
\* counts add up to the number of fetched records with a discovery time.
C3_HourCounts ==
    shown.kind = "hour" =>
        /\ DOMAIN shown.counts = Range(HourLabels)
        /\ Cardinality(DOMAIN shown.counts) = 24
        /\ \A l \in DOMAIN shown.counts : shown.counts[l] >= 0
        /\ SumOver(shown.counts, DOMAIN shown.counts) =
              Cardinality({i \in DOMAIN filteredFile :
                              filteredFile[i].FireDiscoveryDateTime # PyNone})

C3_Witness ==
    /\ shown.kind = "hour"
    /\ Len(filteredFile) = 2
    /\ filteredFile[1].FireDiscoveryDateTime = PyNone
    /\ filteredFile[2].FireDiscoveryDateTime # PyNone
    /\ shown.counts["18:00"] = 1
    /\ shown.counts["00:00"] = 0

\* the rows of the table with discovery time, out time and size present
CompleteRows ==
    SelectSeq([i \in DOMAIN df_fires.rows |-> i],
              LAMBDA i : /\ filteredFile[i].FireDiscoveryDateTime # PyNone
                         /\ filteredFile[i].FireOutDateTime # PyNone
                         /\ filteredFile[i].IncidentSize # PyNone)

\* C4: the correlation set holds exactly the records with discovery time,
\* out time and size present, in order; a stored duration is out time minus
\* discovery time when that is not negative and absent otherwise.
C4_Durations ==
    shown.kind = "corr" =>
        /\ Len(shown.data) = Len(CompleteRows)
        /\ \A k \in DOMAIN shown.data :
              LET d == filteredFile[CompleteRows[k]]
                  e == shown.data[k]
              IN /\ e.fire_size = d.IncidentSize
                 /\ e.duration_hours = PyNone \/ e.duration_hours >= 0
                 /\ d.FireDiscoveryDateTime <= d.FireOutDateTime =>
                        e.duration_hours = d.FireOutDateTime - d.FireDiscoveryDateTime
                 /\ d.FireOutDateTime < d.FireDiscoveryDateTime =>
                        e.duration_hours = PyNone

C4_Witness ==
    /\ shown.kind = "corr"
    /\ Len(shown.data) = 2
    /\ shown.data[1].duration_hours = PyNone
    /\ shown.data[2].duration_hours = 150

\* C5: the join keeps every pair of an incident and a detection that
\* intersect, the count is the number of pairs detected strictly earlier,
\* and the percentage is 100 * count / pairs, or 0 printed as 0.00 when
\* there is no pair; it lies between 0 and 100.
C5_Percentage ==
    Completed =>
        LET pairs == matched.intersected_fires
            total == matched.total_intersected_fires
            count == matched.wfs_earlier_count
            pct == matched.wfs_earlier_percentage
            printed == stdout[Len(stdout)].val
        IN /\ \A i \in DOMAIN df_fires.rows, j \in DOMAIN wfs_data :
                 (<<i, j>> \in pairs) <=>
                     /\ rawFile.features[i].geometry # <<>>
                     /\ rawFile.features[i].geometry \in wfs_data[j].geometry
           /\ total = Cardinality(pairs)
           /\ count = Cardinality({p \in pairs :
                        /\ filteredFile[p[1]].FireDiscoveryDateTime # PyNone
                        /\ wfs_data[p[2]].oldest_detection
                               < filteredFile[p[1]].FireDiscoveryDateTime})
           /\ stdout[Len(stdout) - 1].val = count
           /\ total > 0 => pct.num * total = 100 * count * pct.den
           /\ total > 0 => (2 * (printed * total - 10000 * count) <= total
                            /\ 2 * (10000 * count - printed * total) <= total)
           /\ total = 0 => (pct.num = 0 /\ printed = 0)
           /\ pct.den > 0 /\ 0 <= pct.num /\ pct.num <= 100 * pct.den

C5_Witness ==
    /\ Completed
    /\ matched.total_intersected_fires = 4
    /\ matched.wfs_earlier_count = 2
    /\ stdout[Len(stdout)].val = 5000

FatalPrinted ==
    \/ Printed("Error fetching data:")
    \/ Printed("Error decoding JSON response.")
    \/ Printed("No fire data found.")
    \/ Printed("No fire data available for the given time range.")

\* C6 as stated: a run ends with exit code 1 exactly when one of the four
\* fatal conditions occurred, and with exit code 0 otherwise.
C6_Original ==
    pc = "exit" =>
        /\ exitCode \in {0, 1}
        /\ (exitCode = 1) <=> FatalPrinted

\* C7 as stated: the size categories' counts add up to the number of
\* fetched records whose size is present.
C7_Original ==
    shown.kind = "area" =>
        SumOver(shown.counts, DOMAIN shown.counts) =
            Cardinality({i \in DOMAIN filteredFile :
                            filteredFile[i].IncidentSize # PyNone})

\* C8 as stated: the three reporters leave the table they are given
\* unchanged.
C8_Original ==
    [][(pc \in {"hour", "area", "corr"}) => (df_fires' = df_fires)]_vars

\* C9 as stated: a complete run issues one query, writes each file once,
\* and every stage consumes the record set of that one fetch.
C9_Original ==
    Completed =>
        /\ queries = 1 /\ rawWrites = 1 /\ filteredWrites = 1
        /\ \A i \in DOMAIN consumed : consumed[i].fetch = 1

\* C9 amended: a complete run issues two queries and writes each file
\* twice; the three reporters consume the record set of the first fetch and
\* the matcher that of the second.
C9_TwoFetches ==
    Completed =>
        /\ queries = 2 /\ rawWrites = 2 /\ filteredWrites = 2
        /\ consumed = <<[stage |-> "hour", fetch |-> 1],
                        [stage |-> "area", fetch |-> 1],
                        [stage |-> "corr", fetch |-> 1],
                        [stage |-> "match", fetch |-> 2]>>

C9_Witness ==
    /\ Completed
    /\ Printed("Percentage of fires first detected by WFS:")
    /\ Len(filteredFile) = 2

\* C10 as stated: the matcher's statistics are printed only after a
\* non-empty correlation set, and a run whose fetched incidents never have
\* discovery time, out time and size all present ends with exit code 1
\* inside get_correlation, after the hour and size reporters, without the
\* matcher.
C10_Original ==
    /\ Printed("Fires first detected by WFS:") =>
           /\ \E i \in DOMAIN consumed : consumed[i].stage = "corr"
           /\ ~Printed("No fire data available for the given time range.")
    /\ (pc = "exit" /\ queries = 1 /\ filteredWrites = 1 /\ CompleteRows = <<>>) =>
           /\ exitCode = 1
           /\ LastLine = "No fire data available for the given time range."
           /\ consumed = <<[stage |-> "hour", fetch |-> 1],
                           [stage |-> "area", fetch |-> 1],
                           [stage |-> "corr", fetch |-> 1]>>
           /\ ~Printed("Fires first detected by WFS:")
===========================================================================
